---- MODULE Spec2Model ----
(***************************************************************************)
(* A model of deepwiki-export: the orchestration of one call of            *)
(* save_markdown_from_url, the split-mode writer save_chunks_to_dir and    *)
(* the filename deriver derive_filename_from_url.                          *)
(*                                                                         *)
(* Strings of the program are sequences of one-character strings, so that  *)
(* prefix tests, splits, slices and concatenations are computed as the     *)
(* code computes them.                                                     *)
(***************************************************************************)
EXTENDS Integers, Sequences, FiniteSets, TLC

VARIABLES
    \* ---- one call of save_markdown_from_url
    target_url,          \* argument target_url
    keep_original_html,  \* argument keep_original_html
    regex_compiled,      \* MARKDOWN_CHUNK_REGEX is not None
    pc,                  \* position of the call
    download_url,        \* local download_url
    html_text,           \* local html_text
    markdown_chunks,     \* local markdown_chunks
    result,              \* the returned value: "True", "False"; "none" before
                         \* the return and for a call that returns nothing
    http_requests,       \* number of requests.get calls issued
    files,               \* the files written by the call: path -> content
    stages,              \* the stages the call has run, in order
    fetch_exc,           \* what the download raised ("none": nothing)
    html_exc,            \* what saving the raw HTML raised
    md_exc,              \* what the joined markdown write raised
    \* ---- one call of save_chunks_to_dir
    chunks,              \* argument chunks
    file_extension,      \* argument file_extension
    sp_pc,               \* position of the call
    sp_i,                \* loop variable i
    all_successful,      \* local all_successful
    dir_files,           \* the files of output_dir: name -> content
    sp_result,           \* the returned value ("none" before the return)
    sp_log,              \* per chunk handled: what the deriver returned, the
                         \* file name used, what was raised and where
    \* ---- one call of derive_filename_from_url
    url_str,             \* argument url_str
    extension,           \* argument extension
    df_pc,               \* position of the call
    df_stem,             \* sanitized_name_base[:max_len_base]
    df_result            \* the returned string

runVars == <<target_url, keep_original_html, regex_compiled, pc, download_url,
             html_text, markdown_chunks, result, http_requests, files, stages,
             fetch_exc, html_exc, md_exc>>

splitVars == <<chunks, file_extension, sp_pc, sp_i, all_successful, dir_files,
               sp_result, sp_log>>

deriveVars == <<url_str, extension, df_pc, df_stem, df_result>>

vars == <<runVars, splitVars, deriveVars>>

\* what a step of one operation leaves alone: the other operations
notRunVars == <<splitVars, deriveVars>>

notSplitVars == <<runVars, deriveVars>>

notDeriveVars == <<runVars, splitVars>>

----------------------------------------------------------------------------
(* Bounds of the model. *)

\* longest tail appended to a URL head
MaxUrlTail == 2
\* longest downloaded document, in tokens
MaxDoc == 2
\* longest chunk list given to save_chunks_to_dir
MaxChunks == 3
\* longest tail appended to a head of a URL given to derive_filename_from_url
MaxNameTail == 3

----------------------------------------------------------------------------
(* Strings. *)

\* every sequence over S of length at most n
Strs(S, n) == UNION {[1..k -> S] : k \in 0..n}

\* Python s.startswith(p)
StartsWith(s, p) == Len(s) >= Len(p) /\ SubSeq(s, 1, Len(p)) = p

\* Python s[n:]
DropFirst(s, n) == SubSeq(s, n + 1, Len(s))

\* Python s.find(c) + 1: the first position of c in s, 0 when absent
Find(s, c) ==
    IF \E i \in 1..Len(s) : s[i] = c
    THEN CHOOSE i \in 1..Len(s) : s[i] = c /\ \A j \in 1..(i - 1) : s[j] # c
    ELSE 0

\* Python s.split(c, 1)[0]
SplitFirst(s, c) == IF Find(s, c) = 0 THEN s ELSE SubSeq(s, 1, Find(s, c) - 1)

DEEPWIKI_BASE_URL ==
    <<"h","t","t","p","s",":","/","/","d","e","e","p","w","i","k","i",".","c","o","m","/">>

GITHUB_BASE_URL ==
    <<"h","t","t","p","s",":","/","/","g","i","t","h","u","b",".","c","o","m","/">>

----------------------------------------------------------------------------
(* Exceptions: the classes the operations of a call raise, and Python's    *)
(* except-clause matching.                                                 *)

ExcParent ==
    [Timeout          |-> "RequestException",
     HTTPError        |-> "RequestException",
     ConnectionError  |-> "RequestException",
     RequestException |-> "IOError",
     PermissionError  |-> "IOError",
     IOError          |-> "Exception",
     LookupError      |-> "Exception",
     ValueError       |-> "Exception",
     Exception        |-> "BaseException"]

RECURSIVE IsInstance(_, _)
IsInstance(exc, cls) ==
    IF exc = cls THEN TRUE
    ELSE IF exc \in DOMAIN ExcParent THEN IsInstance(ExcParent[exc], cls)
    ELSE FALSE

\* the index of the first except clause that catches exc, 0 when none does
CaughtBy(exc, clauses) ==
    IF \E i \in 1..Len(clauses) : IsInstance(exc, clauses[i])
    THEN CHOOSE i \in 1..Len(clauses) :
            /\ IsInstance(exc, clauses[i])
            /\ \A j \in 1..(i - 1) : ~IsInstance(exc, clauses[j])
    ELSE 0

----------------------------------------------------------------------------
(* save_markdown_from_url: the URL transformation.                         *)

\* target_url.split('?', 1)[0].split('#', 1)[0]
url_for_prefix_check(url) == SplitFirst(SplitFirst(url, "?"), "#")

\* a slice of the URL the prefix check used, which has lost query and fragment
path_and_query_of_checked(url) ==
    DropFirst(url_for_prefix_check(url), Len(GITHUB_BASE_URL))

\* target_url[len(GITHUB_BASE_URL):]
path_and_query(url) == DropFirst(url, Len(GITHUB_BASE_URL))

\* a transformation whose else branch lets the URL through
TransformURL_no_reject(url) ==
    IF StartsWith(url_for_prefix_check(url), GITHUB_BASE_URL)
    THEN [ok |-> TRUE, url |-> DEEPWIKI_BASE_URL \o path_and_query(url)]
    ELSE [ok |-> TRUE, url |-> url]

\* the if / elif / else that sets download_url or rejects the URL
TransformURL(url) ==
    IF StartsWith(url_for_prefix_check(url), DEEPWIKI_BASE_URL)
    THEN [ok |-> TRUE, url |-> url]
    ELSE IF StartsWith(url_for_prefix_check(url), GITHUB_BASE_URL)
    THEN [ok |-> TRUE, url |-> DEEPWIKI_BASE_URL \o path_and_query(url)]
    ELSE [ok |-> FALSE, url |-> <<>>]

----------------------------------------------------------------------------
(* save_markdown_from_url: the try blocks.  Each lists its except clauses  *)
(* in order, and what the body of the matching clause does.                *)

\* the download's clauses without the final catch-all
FetchExcept_no_catch_all == <<"Timeout", "HTTPError", "RequestException">>

\* except clauses of the download
FetchExcept == <<"Timeout", "HTTPError", "RequestException", "Exception">>

\* an HTTPError clause that logs and forgets to return
FetchClauseBody_http_falls_through(i) ==
    IF i = 2 THEN "continue" ELSE "return_false"

\* every except clause of the download returns False
FetchClauseBody(i) == "return_false"

\* what requests.get, raise_for_status and the decoding can raise
FetchRaises == {"Timeout", "HTTPError", "ConnectionError", "RequestException",
                "LookupError"}

\* except clauses around saving the raw HTML
PersistExcept == <<"IOError", "Exception">>

\* an IOError clause that gives up the whole call
PersistClauseBody_abort(i) == IF i = 1 THEN "return_false" ELSE "continue"

\* both clauses log and fall through to the extraction
PersistClauseBody(i) == "continue"

\* what os.makedirs, open and f.write can raise
PersistRaises == {"PermissionError", "LookupError"}

\* the steps of saving the raw HTML that can fail
PersistSteps == {"makedirs", "open", "write"}

\* except clauses around save_chunks_to_path
WriteExcept == <<"IOError", "Exception">>

\* both clauses return False
WriteClauseBody(i) == "return_false"

\* what save_chunks_to_path can raise
WriteRaises == {"IOError", "LookupError"}

\* what the download's try block does with exc: the body of the first
\* clause that catches it, "propagate" when none does
FetchOnException(exc) ==
    IF CaughtBy(exc, FetchExcept) = 0 THEN "propagate"
    ELSE FetchClauseBody(CaughtBy(exc, FetchExcept))

\* the same for the try block around saving the raw HTML
PersistOnException(exc) ==
    IF CaughtBy(exc, PersistExcept) = 0 THEN "propagate"
    ELSE PersistClauseBody(CaughtBy(exc, PersistExcept))

\* the same for the try block around save_chunks_to_path
WriteOnException(exc) ==
    IF CaughtBy(exc, WriteExcept) = 0 THEN "propagate"
    ELSE WriteClauseBody(CaughtBy(exc, WriteExcept))

----------------------------------------------------------------------------
(* The downloaded document and the two operations of                       *)
(* extract_markdown_from_html.  A document is a sequence of tokens: "x" is *)
(* text the extraction pattern does not match, every other token is one    *)
(* match, standing for its unescaped capture.                              *)

DocTokens == {"m1", "m2", "x"}

Docs == Strs(DocTokens, MaxDoc)

DEFAULT_SEP == "sep"

\* the matches of the pattern, in document order
extract_chunks_from_html(html) == SelectSeq(html, LAMBDA t : t # "x")

\* sep.join(chunks)
RECURSIVE Join(_, _)
Join(cs, sep) ==
    IF cs = <<>> THEN <<>>
    ELSE IF Len(cs) = 1 THEN <<cs[1]>>
    ELSE <<cs[1], sep>> \o Join(Tail(cs), sep)

\* the file system after writing content to path
WriteFile(fs, path, content) ==
    [p \in DOMAIN fs \cup {path} |-> IF p = path THEN content ELSE fs[p]]

NoFiles == [p \in {} |-> <<>>]

----------------------------------------------------------------------------
(* One call of save_markdown_from_url.                                     *)

UrlHeads ==
    {DEEPWIKI_BASE_URL, GITHUB_BASE_URL,
     SubSeq(DEEPWIKI_BASE_URL, 1, Len(DEEPWIKI_BASE_URL) - 1),
     SubSeq(GITHUB_BASE_URL, 1, Len(GITHUB_BASE_URL) - 1),
     <<"h","t","t","p",":","/","/","g","i","t","h","u","b",".","c","o","m","/">>,
     <<>>}

UrlTailChars == {"a", "/", "?", "#"}

\* "https://github.com/Org/Repo" and its documentation-site counterpart
GithubOrgRepo == GITHUB_BASE_URL \o <<"O","r","g","/","R","e","p","o">>

DeepwikiOrgRepo == DEEPWIKI_BASE_URL \o <<"O","r","g","/","R","e","p","o">>

RunUrls ==
    {h \o t : h \in UrlHeads, t \in Strs(UrlTailChars, MaxUrlTail)}
        \cup {GithubOrgRepo}

RunInit ==
    /\ target_url \in RunUrls
    /\ keep_original_html \in BOOLEAN
    /\ regex_compiled \in BOOLEAN
    /\ pc = "start"
    /\ download_url = <<>>
    /\ html_text = <<>>
    /\ markdown_chunks = <<>>
    /\ result = "none"
    /\ http_requests = 0
    /\ files = NoFiles
    /\ stages = <<>>
    /\ fetch_exc = "none"
    /\ html_exc = "none"
    /\ md_exc = "none"

\* if MARKDOWN_CHUNK_REGEX is None: return False
CheckRegex ==
    /\ pc = "start"
    /\ IF regex_compiled
       THEN pc' = "transform" /\ result' = result
       ELSE pc' = "done" /\ result' = "False"
    /\ UNCHANGED <<target_url, keep_original_html, regex_compiled, download_url,
                   html_text, markdown_chunks, http_requests, files, stages,
                   fetch_exc, html_exc, md_exc>>
    /\ UNCHANGED notRunVars

\* the prefix check and the choice of download_url
DoTransformURL ==
    /\ pc = "transform"
    /\ stages' = Append(stages, "TransformURL")
    /\ IF TransformURL(target_url).ok
       THEN /\ download_url' = TransformURL(target_url).url
            /\ pc' = "fetch"
            /\ result' = result
       ELSE /\ download_url' = download_url
            /\ pc' = "done"
            /\ result' = "False"
    /\ UNCHANGED <<target_url, keep_original_html, regex_compiled, html_text,
                   markdown_chunks, http_requests, files, fetch_exc, html_exc,
                   md_exc>>
    /\ UNCHANGED notRunVars

\* the download: requests.get, raise_for_status, decode, and the handlers
Fetch ==
    /\ pc = "fetch"
    /\ stages' = Append(stages, "Fetch")
    /\ http_requests' = http_requests + 1
    /\ \E exc \in FetchRaises \cup {"none"}, doc \in Docs :
          /\ fetch_exc' = exc
          /\ IF exc = "none"
             THEN /\ html_text' = doc
                  /\ pc' = IF keep_original_html THEN "persist" ELSE "extract"
                  /\ result' = result
             ELSE /\ html_text' = html_text
                  /\ doc = <<>>
                  /\ LET todo == FetchOnException(exc) IN
                     CASE todo = "return_false" -> pc' = "done" /\ result' = "False"
                       [] todo = "continue" ->
                             /\ pc' = IF keep_original_html THEN "persist"
                                      ELSE "extract"
                             /\ result' = result
                       [] OTHER -> pc' = "raised" /\ result' = result
    /\ UNCHANGED <<target_url, keep_original_html, regex_compiled, download_url,
                   markdown_chunks, files, html_exc, md_exc>>
    /\ UNCHANGED notRunVars

\* if keep_original_html: create the directory, write html_text
PersistRawHTML ==
    /\ pc = "persist"
    /\ stages' = Append(stages, "PersistRawHTML")
    /\ \E exc \in PersistRaises \cup {"none"}, step \in PersistSteps :
          /\ html_exc' = exc
          /\ IF exc = "none"
             THEN /\ step = "write"
                  /\ files' = WriteFile(files, "html", html_text)
                  /\ pc' = "extract"
                  /\ result' = result
             ELSE \* open(.., 'w') has truncated the file when f.write fails
                  /\ files' = IF step = "write"
                              THEN WriteFile(files, "html", <<>>) ELSE files
                  /\ LET todo == PersistOnException(exc) IN
                     CASE todo = "continue" -> pc' = "extract" /\ result' = result
                       [] todo = "return_false" -> pc' = "done" /\ result' = "False"
                       [] OTHER -> pc' = "raised" /\ result' = result
    /\ UNCHANGED <<target_url, keep_original_html, regex_compiled, download_url,
                   html_text, markdown_chunks, http_requests, fetch_exc, md_exc>>
    /\ UNCHANGED notRunVars

\* markdown_chunks = extract_chunks_from_html(html_text)
ExtractChunks ==
    /\ pc = "extract"
    /\ stages' = Append(stages, "ExtractChunks")
    /\ markdown_chunks' = extract_chunks_from_html(html_text)
    /\ pc' = "write"
    /\ UNCHANGED <<target_url, keep_original_html, regex_compiled, download_url,
                   html_text, result, http_requests, files, fetch_exc, html_exc,
                   md_exc>>
    /\ UNCHANGED notRunVars

\* save_chunks_to_path(markdown_chunks, markdown_output_path, ...)
WriteChunks ==
    /\ pc = "write"
    /\ stages' = Append(stages, "WriteChunks")
    /\ \E exc \in WriteRaises \cup {"none"} :
          /\ md_exc' = exc
          /\ IF exc = "none"
             THEN /\ files' = WriteFile(files, "md", Join(markdown_chunks, DEFAULT_SEP))
                  /\ pc' = "done"
                  /\ result' = "True"
             ELSE /\ files' = files
                  /\ LET todo == WriteOnException(exc) IN
                     CASE todo = "return_false" -> pc' = "done" /\ result' = "False"
                       [] todo = "continue" -> pc' = "done" /\ result' = "none"
                       [] OTHER -> pc' = "raised" /\ result' = result
    /\ UNCHANGED <<target_url, keep_original_html, regex_compiled, download_url,
                   html_text, markdown_chunks, http_requests, fetch_exc, html_exc>>
    /\ UNCHANGED notRunVars

Next ==
    \/ CheckRegex
    \/ DoTransformURL
    \/ Fetch
    \/ PersistRawHTML
    \/ ExtractChunks
    \/ WriteChunks

RunIdle ==
    /\ target_url = <<>>
    /\ keep_original_html = FALSE
    /\ regex_compiled = TRUE
    /\ pc = "idle"
    /\ download_url = <<>>
    /\ html_text = <<>>
    /\ markdown_chunks = <<>>
    /\ result = "none"
    /\ http_requests = 0
    /\ files = NoFiles
    /\ stages = <<>>
    /\ fetch_exc = "none"
    /\ html_exc = "none"
    /\ md_exc = "none"

----------------------------------------------------------------------------
(* save_chunks_to_dir.                                                     *)

Digits == <<"0", "1", "2", "3", "4", "5", "6", "7", "8", "9">>

\* str(n) for a natural number n
RECURSIVE IntToStr(_)
IntToStr(n) ==
    IF n < 10 THEN <<Digits[n + 1]>>
    ELSE IntToStr(n \div 10) \o <<Digits[(n % 10) + 1]>>

\* f"chunk_{i}_unnamed"
UnnamedBase(i) ==
    <<"c","h","u","n","k","_">> \o IntToStr(i) \o <<"_","u","n","n","a","m","e","d">>

\* f"chapter_{i + 1}"
ChapterBase(i) == <<"c","h","a","p","t","e","r","_">> \o IntToStr(i + 1)

\* a fallback that leaves the 0-based placeholder in base_filename
BaseFilename_keeps_placeholder(derived, i) ==
    IF derived = <<>> THEN UnnamedBase(i) ELSE derived

\* if not base_filename: base_filename = f"chapter_{i + 1}"
BaseFilename(derived, i) == IF derived = <<>> THEN ChapterBase(i) ELSE derived

\* file_extension if file_extension.startswith('.') else f".{file_extension}"
actual_extension(ext) == IF StartsWith(ext, <<".">>) THEN ext ELSE <<".">> \o ext

\* output_dir / (base_filename + actual_extension): the name inside output_dir
OutputFileName(derived, i, ext) == BaseFilename(derived, i) \o actual_extension(ext)

\* the one except clause of the loop body
SplitExcept == <<"Exception">>

\* a clause that gives up the remaining chunks
SplitClauseBody_stop(k) == "return_false"

\* the clause logs, clears all_successful and lets the loop go on
SplitClauseBody(k) == "continue_failed"

SplitOnException(exc) ==
    IF CaughtBy(exc, SplitExcept) = 0 THEN "propagate"
    ELSE SplitClauseBody(CaughtBy(exc, SplitExcept))

\* what filename_deriver can raise, and what open and f.write can
DeriverRaises == {"ValueError"}

SplitIoRaises == {"IOError"}

\* what filename_deriver can return
DeriverOutputs == {<<>>, <<"x">>, <<"y">>}

ChunkContents == {"c1", "c2"}

SplitExtensions == {<<".", "m", "d">>, <<"m", "d">>}

SplitInit ==
    /\ chunks \in Strs(ChunkContents, MaxChunks)
    /\ file_extension \in SplitExtensions
    /\ sp_pc = "start"
    /\ sp_i = 0
    /\ all_successful = TRUE
    /\ dir_files = NoFiles
    /\ sp_result = "none"
    /\ sp_log = <<>>

SplitIdle ==
    /\ chunks = <<>>
    /\ file_extension = <<>>
    /\ sp_pc = "idle"
    /\ sp_i = 0
    /\ all_successful = TRUE
    /\ dir_files = NoFiles
    /\ sp_result = "none"
    /\ sp_log = <<>>

\* if not chunks: return True; otherwise all_successful = True and the loop
SplitStart ==
    /\ sp_pc = "start"
    /\ IF chunks = <<>>
       THEN sp_pc' = "done" /\ sp_result' = "True"
       ELSE sp_pc' = "loop" /\ sp_result' = sp_result
    /\ all_successful' = TRUE
    /\ sp_i' = 0
    /\ UNCHANGED <<chunks, file_extension, dir_files, sp_log>>
    /\ UNCHANGED notSplitVars

\* one pass of the loop body on chunks[i] (0-based i): derive the name, open
\* the file, write the chunk; the except clause on any failure
SplitChunk ==
    /\ sp_pc = "loop"
    /\ sp_i < Len(chunks)
    /\ \E derived \in DeriverOutputs,
          exc \in DeriverRaises \cup SplitIoRaises \cup {"none"},
          at \in {"deriver", "open", "write", "nowhere"} :
          LET name == OutputFileName(derived, sp_i, file_extension)
              todo == SplitOnException(exc)
          IN
          /\ (exc = "none") <=> (at = "nowhere")
          /\ exc \in DeriverRaises <=> at = "deriver"
          /\ at = "deriver" => derived = <<>>
          /\ sp_log' = Append(sp_log,
                 [index |-> sp_i, derived |-> derived, exc |-> exc, at |-> at,
                  name |-> IF at = "deriver" THEN UnnamedBase(sp_i) ELSE name])
          /\ dir_files' =
                CASE at = "nowhere" -> WriteFile(dir_files, name, chunks[sp_i + 1])
                  [] at = "write" -> WriteFile(dir_files, name, "")
                  [] OTHER -> dir_files
          /\ IF exc = "none"
             THEN /\ all_successful' = all_successful
                  /\ sp_pc' = IF sp_i + 1 < Len(chunks) THEN "loop" ELSE "return"
                  /\ sp_result' = sp_result
             ELSE CASE todo = "continue_failed" ->
                         /\ all_successful' = FALSE
                         /\ sp_pc' = IF sp_i + 1 < Len(chunks) THEN "loop"
                                     ELSE "return"
                         /\ sp_result' = sp_result
                    [] todo = "return_false" ->
                         /\ all_successful' = FALSE
                         /\ sp_pc' = "done"
                         /\ sp_result' = "False"
                    [] OTHER ->
                         /\ all_successful' = all_successful
                         /\ sp_pc' = "raised"
                         /\ sp_result' = sp_result
    /\ sp_i' = sp_i + 1
    /\ UNCHANGED <<chunks, file_extension>>
    /\ UNCHANGED notSplitVars

\* return all_successful
SplitReturn ==
    /\ sp_pc = "return"
    /\ sp_pc' = "done"
    /\ sp_result' = IF all_successful THEN "True" ELSE "False"
    /\ UNCHANGED <<chunks, file_extension, sp_i, all_successful, dir_files, sp_log>>
    /\ UNCHANGED notSplitVars

NextSplit ==
    \/ SplitStart
    \/ SplitChunk
    \/ SplitReturn

----------------------------------------------------------------------------
(* utils.py: character classes and string operations.                      *)

Letters ==
    {"a","b","c","d","e","f","g","h","i","j","k","l","m","n","o","p","q","r",
     "s","t","u","v","w","x","y","z","A","B","C","D","E","F","G","H","I","J",
     "K","L","M","N","O","P","Q","R","S","T","U","V","W","X","Y","Z"}

DigitChars == {Digits[k] : k \in 1..10}

\* a character class that leaves out '.', so that dots become underscores
SafeChars_no_dot == Letters \cup DigitChars \cup {"_", "-"}

\* the class [a-zA-Z0-9._-] of the sanitizer's pattern
SafeChars == Letters \cup DigitChars \cup {".", "_", "-"}

\* urllib.parse.scheme_chars
SchemeChars == Letters \cup DigitChars \cup {"+", "-", "."}

Contains(s, c) == \E k \in 1..Len(s) : s[k] = c

\* Python s.rfind(c) + 1: the last position of c in s, 0 when absent
RECURSIVE RFind(_, _)
RFind(s, c) ==
    IF s = <<>> THEN 0
    ELSE IF s[Len(s)] = c THEN Len(s)
    ELSE RFind(SubSeq(s, 1, Len(s) - 1), c)

\* Python s.lstrip(cs), s.rstrip(cs), s.strip(cs) for a set cs of characters
RECURSIVE LStrip(_, _)
LStrip(s, cs) ==
    IF s # <<>> /\ s[1] \in cs THEN LStrip(Tail(s), cs) ELSE s

RECURSIVE RStrip(_, _)
RStrip(s, cs) ==
    IF s # <<>> /\ s[Len(s)] \in cs THEN RStrip(SubSeq(s, 1, Len(s) - 1), cs) ELSE s

Strip(s, cs) == RStrip(LStrip(s, cs), cs)

\* Python s.split(c): the pieces of s between the occurrences of c
RECURSIVE Split(_, _)
Split(s, c) ==
    LET i == Find(s, c) IN
    IF i = 0 THEN <<s>>
    ELSE <<SubSeq(s, 1, i - 1)>> \o Split(DropFirst(s, i), c)

----------------------------------------------------------------------------
(* urlparse(url_str), as far as derive_filename_from_url uses it: whether  *)
(* it raises, the netloc and the path.  The URLs of the model hold no      *)
(* ']', ';', control character or space, so the bracketed-host check, the  *)
(* params split and the stripping of such characters are left out.         *)

\* the URL after its scheme: url[i+1:] when the text before the first ':'
\* is a scheme, the URL itself otherwise
AfterScheme(url) ==
    LET i == Find(url, ":") IN
    IF /\ i > 1
       /\ url[1] \in Letters
       /\ \A k \in 1..(i - 1) : url[k] \in SchemeChars
    THEN DropFirst(url, i)
    ELSE url

\* the end of the netloc of a rest that starts with "//": the first of
\* '/', '?', '#' from position 3 on, or one past the end
NetlocEnd(rest) ==
    IF \E k \in 3..Len(rest) : rest[k] \in {"/", "?", "#"}
    THEN CHOOSE k \in 3..Len(rest) :
            /\ rest[k] \in {"/", "?", "#"}
            /\ \A j \in 3..(k - 1) : rest[j] \notin {"/", "?", "#"}
    ELSE Len(rest) + 1

\* parsed_url.netloc
UrlNetloc(url) ==
    LET rest == AfterScheme(url) IN
    IF StartsWith(rest, <<"/", "/">>)
    THEN SubSeq(rest, 3, NetlocEnd(rest) - 1)
    ELSE <<>>

\* urlsplit raises ValueError("Invalid IPv6 URL")
UrlParseRaises(url) ==
    LET netloc == UrlNetloc(url) IN
    (Contains(netloc, "[") /\ ~Contains(netloc, "]"))
        \/ (Contains(netloc, "]") /\ ~Contains(netloc, "["))

\* parsed_url.path: what follows the netloc, up to the first '#' and '?'
UrlPath(url) ==
    LET after == AfterScheme(url)
        rest == IF StartsWith(after, <<"/", "/">>)
                THEN DropFirst(after, NetlocEnd(after) - 1)
                ELSE after
    IN  SplitFirst(SplitFirst(rest, "#"), "?")

----------------------------------------------------------------------------
(* pathlib.Path(p) on POSIX: parts, name and stem.                         *)

\* the root of p: "//" for exactly two leading slashes, "/" for any other
\* number of them, nothing for a relative path
PathRoot(p) ==
    IF p = <<>> \/ p[1] # "/" THEN <<>>
    ELSE IF Len(p) - Len(LStrip(p, {"/"})) = 2 THEN <<"/", "/">>
    ELSE <<"/">>

\* the components of p after its root: empty ones and "." are dropped
PathSegments(p) ==
    SelectSeq(Split(LStrip(p, {"/"}), "/"), LAMBDA x : x # <<>> /\ x # <<".">>)

\* Path(p).parts
PathParts(p) ==
    (IF PathRoot(p) = <<>> THEN <<>> ELSE <<PathRoot(p)>>) \o PathSegments(p)

\* Path(p).name
PathName(p) ==
    LET segs == PathSegments(p) IN
    IF segs = <<>> THEN <<>> ELSE segs[Len(segs)]

\* the stem of a name: the name up to its last '.', unless that '.' is the
\* first or the last character
NameStem(name) ==
    LET i == RFind(name, ".") IN
    IF 1 < i /\ i < Len(name) THEN SubSeq(name, 1, i - 1) ELSE name

\* Path(p).stem
PathStem(p) == NameStem(PathName(p))

----------------------------------------------------------------------------
(* sanitize_filename_component and derive_filename_from_url.               *)

untitled == <<"u","n","t","i","t","l","e","d">>

untitled_url == <<"u","n","t","i","t","l","e","d","_","u","r","l">>

\* re.sub(r'[^a-zA-Z0-9._-]+', '_', name)
RECURSIVE ReplaceUnsafeRuns(_)
ReplaceUnsafeRuns(name) ==
    IF name = <<>> THEN <<>>
    ELSE IF name[1] \in SafeChars THEN <<name[1]>> \o ReplaceUnsafeRuns(Tail(name))
    ELSE IF Len(name) > 1 /\ name[2] \notin SafeChars
         THEN ReplaceUnsafeRuns(Tail(name))
    ELSE <<"_">> \o ReplaceUnsafeRuns(Tail(name))

\* re.sub(r'_+', '_', name)
RECURSIVE CollapseUnderscores(_)
CollapseUnderscores(name) ==
    IF name = <<>> THEN <<>>
    ELSE IF name[1] = "_" /\ Len(name) > 1 /\ name[2] = "_"
         THEN CollapseUnderscores(Tail(name))
    ELSE <<name[1]>> \o CollapseUnderscores(Tail(name))

sanitize_filename_component(name) ==
    IF name = <<>> THEN untitled
    ELSE LET cleaned ==
                CollapseUnderscores(Strip(ReplaceUnsafeRuns(name), {".", "_"}))
         IN  IF cleaned = <<>> \/ \A k \in 1..Len(cleaned) : cleaned[k] \in {".", "_"}
             THEN untitled
             ELSE cleaned

max_len_base == 50

\* name_base after "if name_base.startswith('.')": the stem of the path,
\* without one leading '.'
StemNoLeadingDot(url) ==
    LET stem == PathStem(UrlPath(url)) IN
    IF StartsWith(stem, <<".">>) THEN DropFirst(stem, 1) ELSE stem

\* [seg for seg in path_obj.parts if seg and seg != '/']
path_segments(url) ==
    SelectSeq(PathParts(UrlPath(url)), LAMBDA seg : seg # <<>> /\ seg # <<"/">>)

\* name_base when the stem of the path gave nothing: from the last path
\* segment, else the netloc, else "untitled_url"
FallbackNameBase(url) ==
    LET segs == path_segments(url) IN
    IF segs # <<>>
    THEN LET name_base_segment == segs[Len(segs)]
             name_base_segment_stem == PathStem(name_base_segment)
         IN  IF name_base_segment_stem # <<>>
                    /\ ~StartsWith(name_base_segment_stem, <<".">>)
             THEN name_base_segment_stem
             ELSE IF StartsWith(name_base_segment_stem, <<".">>)
             THEN DropFirst(name_base_segment_stem, 1)
             ELSE name_base_segment
    ELSE IF UrlNetloc(url) # <<>> THEN UrlNetloc(url)
    ELSE untitled_url

\* name_base as given to the sanitizer
name_base(url) ==
    LET stem == StemNoLeadingDot(url) IN
    IF stem = <<>> \/ stem = <<"/">> THEN FallbackNameBase(url) ELSE stem

\* sanitized_name_base[:max_len_base]
TruncatedStem(url) ==
    LET sanitized_name_base == sanitize_filename_component(name_base(url)) IN
    SubSeq(sanitized_name_base, 1,
           IF Len(sanitized_name_base) < max_len_base
           THEN Len(sanitized_name_base) ELSE max_len_base)

\* f"{sanitized_name_base[:max_len_base]}{extension}"
derive_filename_from_url(url, ext) == TruncatedStem(url) \o ext

----------------------------------------------------------------------------
(* One call of derive_filename_from_url.                                   *)

\* a path segment of 49 letters, on which truncation decides the last
\* character of the stem
LongSegment == [k \in 1..(max_len_base - 1) |-> "a"]

\* "https://deepwiki.com/a/b/archive.tar.gz"
ArchiveUrl ==
    DEEPWIKI_BASE_URL
        \o <<"a","/","b","/","a","r","c","h","i","v","e",".","t","a","r",".","g","z">>

NameHeads ==
    {<<>>, DEEPWIKI_BASE_URL,
     SubSeq(DEEPWIKI_BASE_URL, 1, Len(DEEPWIKI_BASE_URL) - 1), LongSegment}

NameTailChars == {"a", ".", "_", "/", "?", "[", "!"}

NameUrls ==
    {h \o t : h \in NameHeads, t \in Strs(NameTailChars, MaxNameTail)}
        \cup {ArchiveUrl, GithubOrgRepo}

NameExtensions == {<<".", "m", "d">>, <<"m", "d">>, <<".", ".", "m", "d">>}

DeriveInit ==
    /\ url_str \in NameUrls
    /\ extension \in NameExtensions
    /\ df_pc = "call"
    /\ df_stem = <<>>
    /\ df_result = <<>>

DeriveIdle ==
    /\ url_str = <<>>
    /\ extension = <<>>
    /\ df_pc = "idle"
    /\ df_stem = <<>>
    /\ df_result = <<>>

\* the call returns its filename
DeriveReturn ==
    /\ df_pc = "call"
    /\ ~UrlParseRaises(url_str)
    /\ df_pc' = "done"
    /\ df_stem' = TruncatedStem(url_str)
    /\ df_result' = derive_filename_from_url(url_str, extension)
    /\ UNCHANGED <<url_str, extension>>
    /\ UNCHANGED notDeriveVars

\* urlparse raises ValueError, which nothing in the function catches
DeriveRaise ==
    /\ df_pc = "call"
    /\ UrlParseRaises(url_str)
    /\ df_pc' = "raised"
    /\ UNCHANGED <<url_str, extension, df_stem, df_result>>
    /\ UNCHANGED notDeriveVars

NextDerive ==
    \/ DeriveReturn
    \/ DeriveRaise

----------------------------------------------------------------------------
(* The specifications: one per operation, the other operations idle.       *)

Init == RunInit /\ SplitIdle /\ DeriveIdle

\* one call of save_markdown_from_url
Spec == Init /\ [][Next]_vars

InitSplit == SplitInit /\ RunIdle /\ DeriveIdle

\* one call of save_chunks_to_dir
SpecSplit == InitSplit /\ [][NextSplit]_vars

InitDerive == DeriveInit /\ RunIdle /\ SplitIdle

\* one call of derive_filename_from_url
SpecDerive == InitDerive /\ [][NextDerive]_vars

----------------------------------------------------------------------------
(* Properties of save_markdown_from_url.                                   *)

Range(seq) == {seq[i] : i \in 1..Len(seq)}

\* p is a prefix of s, position by position
IsPrefixOf(p, s) == Len(p) <= Len(s) /\ \A i \in 1..Len(p) : s[i] = p[i]

\* the part of u before its first '?' or '#'
RECURSIVE BeforeQueryOrFragment(_)
BeforeQueryOrFragment(u) ==
    IF u = <<>> \/ Head(u) \in {"?", "#"} THEN <<>>
    ELSE <<Head(u)>> \o BeforeQueryOrFragment(Tail(u))

GithubInput == IsPrefixOf(GITHUB_BASE_URL, BeforeQueryOrFragment(target_url))

DeepwikiInput == IsPrefixOf(DEEPWIKI_BASE_URL, BeforeQueryOrFragment(target_url))

TransformRan == "TransformURL" \in Range(stages)

\* C1: once the transformation has run, a GitHub input has given the
\* documentation-site base followed by exactly the input's remainder after
\* the GitHub base (path, query and fragment), "https://github.com/Org/Repo"
\* has given "https://deepwiki.com/Org/Repo", and a DeepWiki input has given
\* the input itself.
C1_UrlTransformation ==
    TransformRan =>
        /\ GithubInput =>
              /\ IsPrefixOf(DEEPWIKI_BASE_URL, download_url)
              /\ Len(download_url) - Len(DEEPWIKI_BASE_URL)
                    = Len(target_url) - Len(GITHUB_BASE_URL)
              /\ \A i \in 1..(Len(target_url) - Len(GITHUB_BASE_URL)) :
                    download_url[Len(DEEPWIKI_BASE_URL) + i]
                        = target_url[Len(GITHUB_BASE_URL) + i]
        /\ target_url = GithubOrgRepo => download_url = DeepwikiOrgRepo
        /\ DeepwikiInput => download_url = target_url

\* a GitHub URL with a query was transformed and is about to be fetched
C1_Witness ==
    /\ pc = "fetch"
    /\ GithubInput
    /\ "?" \in Range(target_url)
    /\ "a" \in Range(target_url)

\* C2: for an input matching neither base the call never gets past the
\* transformation, issues no HTTP request, writes no file, and returns False.
C2_InvalidUrlRejected ==
    (~GithubInput /\ ~DeepwikiInput) =>
        /\ pc \in {"start", "transform", "done"}
        /\ http_requests = 0
        /\ files = NoFiles
        /\ pc = "done" => result = "False"

\* an "http://github.com/..." input was rejected by the transformation
C2_Witness ==
    /\ ~GithubInput /\ ~DeepwikiInput
    /\ Len(target_url) > Len(GITHUB_BASE_URL)
    /\ regex_compiled
    /\ pc = "done"
    /\ result = "False"

StageOrder ==
    <<"TransformURL", "Fetch", "PersistRawHTML", "ExtractChunks", "WriteChunks">>

StageRank(st) == CHOOSE i \in 1..Len(StageOrder) : StageOrder[i] = st

\* C3: the stages run in the fixed order, each at most once, the raw-HTML
\* stage exactly when asked for; the call aborts with False and no later
\* stage when the pattern is missing, the URL is rejected or the fetch fails;
\* it returns True exactly when the joined write was reached and succeeded,
\* and False when that write fails.
C3_StageOrderAndAborts ==
    /\ \A i, j \in 1..Len(stages) :
          i < j => StageRank(stages[i]) < StageRank(stages[j])
    /\ "Fetch" \in Range(stages) => "TransformURL" \in Range(stages)
    /\ "PersistRawHTML" \in Range(stages) =>
          keep_original_html /\ "Fetch" \in Range(stages)
    /\ "ExtractChunks" \in Range(stages) =>
          /\ "Fetch" \in Range(stages)
          /\ keep_original_html => "PersistRawHTML" \in Range(stages)
    /\ "WriteChunks" \in Range(stages) => "ExtractChunks" \in Range(stages)
    /\ result # "none" => pc = "done"
    /\ (~regex_compiled /\ pc # "start") =>
          pc = "done" /\ result = "False" /\ stages = <<>>
    /\ (TransformRan /\ ~GithubInput /\ ~DeepwikiInput) =>
          pc = "done" /\ result = "False" /\ stages = <<"TransformURL">>
    /\ fetch_exc # "none" =>
          pc = "done" /\ result = "False" /\ stages = <<"TransformURL", "Fetch">>
    /\ md_exc # "none" => pc = "done" /\ result = "False"
    /\ result = "True" <=>
          pc = "done" /\ "WriteChunks" \in Range(stages) /\ md_exc = "none"

\* a call that kept the raw HTML ran all five stages and returned True
C3_Witness ==
    /\ pc = "done"
    /\ result = "True"
    /\ stages = StageOrder
    /\ markdown_chunks # <<>>

\* C4: when saving the raw HTML fails, the call goes on to the extraction
\* and the joined write, and returns True exactly when that write succeeds.
C4_RawHtmlFailureNonFatal ==
    (keep_original_html /\ html_exc # "none") =>
        /\ pc \in {"extract", "write", "done"}
        /\ pc = "done" =>
              /\ "ExtractChunks" \in Range(stages)
              /\ "WriteChunks" \in Range(stages)
              /\ result \in {"True", "False"}
              /\ result = "True" <=> md_exc = "none"
              /\ result = "True" => "md" \in DOMAIN files

\* the raw HTML could not be saved and the call still returned True
C4_Witness ==
    /\ keep_original_html
    /\ html_exc = "PermissionError"
    /\ pc = "done"
    /\ result = "True"
    /\ "html" \notin DOMAIN files

\* C5: no exception leaves the call: whatever the download, the raw-HTML
\* save and the joined write raise, the call is never left by an exception,
\* can always take its next step until it has returned, and returns a boolean.
C5_NoExceptionEscapes ==
    /\ pc # "raised"
    /\ pc # "done" => ENABLED Next
    /\ pc = "done" => result \in {"True", "False"}

\* both writes failed, with errors only the catch-all clauses take, and the
\* call returned False
C5_Witness ==
    /\ pc = "done"
    /\ html_exc = "LookupError"
    /\ md_exc = "LookupError"
    /\ result = "False"

----------------------------------------------------------------------------
(* Properties of save_chunks_to_dir.                                       *)

\* the k-th chunk handled reached open(), so that its file was created or
\* truncated
Touched(k) == sp_log[k].at \in {"nowhere", "write"}

\* no chunk handled after the k-th one reached open() on the same file name
NotTouchedLater(k) ==
    \A l \in (k + 1)..Len(sp_log) :
        Touched(l) => sp_log[l].name # sp_log[k].name

ChunkFailed(k) == sp_log[k].exc # "none"

\* C6: a failure on one chunk is caught and the loop goes on: every chunk is
\* handled, in order; a chunk whose write succeeded has its file, holding its
\* content unless a later chunk was written under the same name; the flag is
\* False exactly when some chunk failed and True otherwise, also for no
\* chunks; with 3 chunks under distinct names of which only index 1 fails,
\* the flag is False and the files of index 0 and 2 hold their chunks.
C6_SplitFailuresDoNotStop ==
    /\ sp_pc # "raised"
    /\ sp_pc \in {"return", "done"} => Len(sp_log) = Len(chunks)
    /\ \A k \in 1..Len(sp_log) :
          /\ sp_log[k].index = k - 1
          /\ ~ChunkFailed(k) =>
                /\ sp_log[k].name \in DOMAIN dir_files
                /\ NotTouchedLater(k) => dir_files[sp_log[k].name] = chunks[k]
    /\ sp_pc = "done" =>
          /\ sp_result \in {"True", "False"}
          /\ sp_result = "False" <=> \E k \in 1..Len(sp_log) : ChunkFailed(k)
          /\ chunks = <<>> => sp_result = "True"
          /\ ( /\ Len(chunks) = 3
               /\ ~ChunkFailed(1) /\ ChunkFailed(2) /\ ~ChunkFailed(3)
               /\ sp_log[1].name # sp_log[3].name
               /\ Touched(2) => sp_log[2].name \notin {sp_log[1].name, sp_log[3].name} )
             => /\ sp_result = "False"
                /\ dir_files[sp_log[1].name] = chunks[1]
                /\ dir_files[sp_log[3].name] = chunks[3]

\* three chunks, the write of index 1 failed, index 0 and 2 were written
\* under different names, and the call returned False
C6_Witness ==
    /\ sp_pc = "done"
    /\ Len(chunks) = 3
    /\ ~ChunkFailed(1) /\ ~ChunkFailed(3)
    /\ sp_log[2].exc = "IOError" /\ sp_log[2].at = "open"
    /\ sp_log[1].name # sp_log[3].name
    /\ chunks[1] # chunks[3]
    /\ sp_result = "False"

\* C7: when the call returns True, the target directory (empty before the
\* call) holds as many files as there are chunks.
C7_FileCountEqualsChunks ==
    (sp_pc = "done" /\ sp_result = "True") =>
        Cardinality(DOMAIN dir_files) = Len(chunks)

----------------------------------------------------------------------------
(* Properties of derive_filename_from_url.                                 *)

\* Python s.endswith(e)
EndsWith(s, e) ==
    Len(s) >= Len(e) /\ \A k \in 1..Len(e) : s[Len(s) - Len(e) + k] = e[k]

\* the returned filename without the appended extension
ResultStem == [k \in 1..(Len(df_result) - Len(extension)) |-> df_result[k]]

\* what a call that returns gives back: a non-empty string that ends in the
\* extension, with at most 50 characters before it
ReturnedWellFormed ==
    df_pc = "done" =>
        /\ df_result # <<>>
        /\ EndsWith(df_result, extension)
        /\ Len(df_result) - Len(extension) <= 50

\* C8: derive_filename_from_url is total: for every URL string and extension
\* it returns, without error, a non-empty string that ends in the extension
\* and has at most 50 characters before it.
C8_DeriveTotal ==
    /\ df_pc # "raised"
    /\ ReturnedWellFormed

InSafeSet(stem) == \A k \in 1..Len(stem) : stem[k] \in SafeChars

NoDotOrUnderscoreAtEnds(stem) ==
    stem # <<>> => stem[1] \notin {".", "_"} /\ stem[Len(stem)] \notin {".", "_"}

\* C9: the stem of every returned filename is non-empty, holds only
\* characters of [a-zA-Z0-9._-], neither begins nor ends with '.' or '_',
\* and is at most 50 characters long.
C9_StemInvariant ==
    df_pc = "done" =>
        /\ ResultStem # <<>>
        /\ InSafeSet(ResultStem)
        /\ NoDotOrUnderscoreAtEnds(ResultStem)
        /\ Len(ResultStem) <= 50

\* the same invariant for the stems that truncation left whole, and all of
\* it but the two ends for the truncated ones
StemInvariantWithoutTruncation ==
    df_pc = "done" =>
        /\ ResultStem # <<>>
        /\ InSafeSet(ResultStem)
        /\ Len(ResultStem) <= 50
        /\ Len(sanitize_filename_component(name_base(url_str))) <= max_len_base
              => NoDotOrUnderscoreAtEnds(ResultStem)

\* C10: the returned filename is the truncated sanitized stem, one '.', and
\* the requested extension without its leading dots.
C10_ExtensionNormalized ==
    df_pc = "done" =>
        df_result = df_stem \o <<".">> \o LStrip(extension, {"."})

\* the filename is the truncated sanitized stem followed by the extension
\* exactly as requested
ExtensionAppendedAsGiven ==
    df_pc = "done" => df_result = df_stem \o extension

----------------------------------------------------------------------------
(* The scenario "https://deepwiki.com/a/b/archive.tar.gz" with ".md".     *)

ArchiveCall == url_str = ArchiveUrl /\ extension = <<".", "m", "d">>

archive_tar_md == <<"a","r","c","h","i","v","e","_","t","a","r",".","m","d">>

archive_dot_tar == <<"a","r","c","h","i","v","e",".","t","a","r">>

\* C11 as stated: the call on "https://deepwiki.com/a/b/archive.tar.gz" with
\* ".md" returns "archive_tar.md", the inner '.' replaced by '_'.
C11_ArchiveUnderscore ==
    ArchiveCall =>
        /\ df_pc # "raised"
        /\ df_pc = "done" => df_result = archive_tar_md

\* C11: the call on "https://deepwiki.com/a/b/archive.tar.gz" with ".md"
\* takes the stem "archive.tar" of the final path segment and returns
\* "archive.tar.md": the sanitizer keeps the inner '.', which is in its
\* character class, and no '_' appears in the result.
C11_ArchiveKeepsDot ==
    ArchiveCall =>
        /\ df_pc # "raised"
        /\ df_pc = "done" =>
              /\ df_stem = archive_dot_tar
              /\ df_result = archive_dot_tar \o <<".", "m", "d">>
              /\ ~Contains(df_result, "_")

\* the call on the archive URL with ".md" has returned
C11_Witness == ArchiveCall /\ df_pc = "done" /\ Len(df_result) = 14

----------------------------------------------------------------------------
(* Naming of the files of save_chunks_to_dir.                              *)

\* the decimal numerals of 1..9 and of 0..8, by 1-based position of a chunk
OneBasedNumeral == <<"1", "2", "3", "4", "5", "6", "7", "8", "9">>

ZeroBasedNumeral == <<"0", "1", "2", "3", "4", "5", "6", "7", "8">>

\* "chapter_<k>" for the k-th chunk, counted from 1
ChapterName(k) == <<"c","h","a","p","t","e","r","_", OneBasedNumeral[k]>>

\* "chunk_<k-1>_unnamed" for the k-th chunk, counted from 1
PlaceholderName(k) ==
    <<"c","h","u","n","k","_", ZeroBasedNumeral[k]>>
        \o <<"_","u","n","n","a","m","e","d">>

\* the extension with a '.' put in front when it does not start with one
DottedExtension ==
    IF file_extension # <<>> /\ file_extension[1] = "."
    THEN file_extension
    ELSE <<".">> \o file_extension

\* the name the k-th chunk handled is to be written under
ExpectedName(k) ==
    (IF sp_log[k].derived # <<>> THEN sp_log[k].derived ELSE ChapterName(k))
        \o DottedExtension

\* C12: every chunk that reached open() was written under the deriver's
\* result plus the extension when that result is non-empty, and under
\* "chapter_<i+1>" plus the extension when it is empty, the extension with a
\* leading '.'; the directory holds no file under any other name, and none
\* under the placeholder "chunk_<i>_unnamed", with or without extension.
C12_SplitNaming ==
    /\ \A k \in 1..Len(sp_log) :
          Touched(k) =>
              /\ sp_log[k].name = ExpectedName(k)
              /\ sp_log[k].name \in DOMAIN dir_files
              /\ sp_log[k].name[Len(sp_log[k].name) - Len(file_extension)] = "."
                    \/ file_extension[1] = "."
    /\ \A name \in DOMAIN dir_files :
          /\ \E k \in 1..Len(sp_log) : Touched(k) /\ name = ExpectedName(k)
          /\ \A k \in 1..Len(chunks) :
                /\ name # PlaceholderName(k)
                /\ name # PlaceholderName(k) \o DottedExtension

\* a call with extension "md" wrote one chunk under "chapter_2.md" after the
\* deriver had raised on the chunk before it, whose placeholder named no file
C12_Witness ==
    /\ sp_pc = "done"
    /\ file_extension = <<"m", "d">>
    /\ Len(sp_log) >= 2
    /\ sp_log[1].at = "deriver"
    /\ sp_log[2].derived = <<>> /\ sp_log[2].at = "nowhere"
    /\ DOMAIN dir_files = {<<"c","h","a","p","t","e","r","_","2",".","m","d">>}

====
